---- MODULE Spec2Model ----
(***************************************************************************)
(* Model of src/info_retrieval.py: the term-frequency builders (tf,        *)
(* log_tf, augmented_tf, boolean_tf), idf, the fused tf_idf, the row       *)
(* normaliser unit_length_scaling and the similarity function sim.         *)
(*                                                                         *)
(* A document is a Python str, modelled as the sequence of its characters' *)
(* code points (ord): "ab a" is <<97, 98, 32, 97>>.  A vocabulary is a     *)
(* Python list of such words.  A sparse matrix                             *)
(* (scipy.sparse.csr_matrix) is a record [shape, ent] where ent maps each  *)
(* STORED position <<row, col>> (0-based) to its stored value; a position  *)
(* outside DOMAIN ent is a structural zero.                                *)
(*                                                                         *)
(* Numbers.  A float is an exact rational <<n, d>> in lowest terms with    *)
(* d > 0; <<0, 0>> is NaN and <<1, 0>>, <<-1, 0>> are +inf, -inf.          *)
(* np.log is kept symbolic: ln(q) is the record [ln |-> q].                *)
(***************************************************************************)
EXTENDS Integers, Sequences, FiniteSets, TLC

VARIABLES data, dictionary, out, M1, M2, ret

vars == <<data, dictionary, out, M1, M2, ret>>

(***************************************************************************)
(* Bounds of the model.                                                    *)
(***************************************************************************)
\* documents of a corpus
MaxDocs == 2
\* tokens of a corpus, all its documents together
MaxTokens == 3
\* words of a vocabulary
MaxVocab == 2
\* stored entries (nonzero cells, for an ndarray) of the two matrices together
MaxNnz == 3

(***************************************************************************)
(* Rational arithmetic standing for float64.                               *)
(***************************************************************************)
Abs(x) == IF x < 0 THEN -x ELSE x

Sgn(x) == IF x < 0 THEN -1 ELSE IF x = 0 THEN 0 ELSE 1

RECURSIVE Gcd(_, _)
Gcd(a, b) == IF b = 0 THEN a ELSE Gcd(b, a % b)

Rat(n, d) ==
  IF d = 0 THEN <<Sgn(n), 0>>
  ELSE LET g == Gcd(Abs(n), Abs(d))
           s == IF d < 0 THEN -1 ELSE 1
       IN  <<(s * n) \div g, (s * d) \div g>>

NaN == <<0, 0>>

IsNaN(x) == x = NaN

FromInt(v) == <<v, 1>>

\* x * y; 0 * inf and anything with NaN give NaN
RMul(x, y) ==
  IF IsNaN(x) \/ IsNaN(y) THEN NaN ELSE Rat(x[1] * y[1], x[2] * y[2])

\* x / y; 0/0 is NaN and v/0 is +-inf, as numpy's true division gives
RDiv(x, y) ==
  IF IsNaN(x) \/ IsNaN(y) THEN NaN
  ELSE IF y[2] = 0 THEN (IF x[2] = 0 THEN NaN ELSE <<0, 1>>)
  ELSE IF x[2] = 0 THEN <<x[1] * (IF y[1] < 0 THEN -1 ELSE 1), 0>>
  ELSE Rat(x[1] * y[2], x[2] * y[1])

RAdd(x, y) ==
  IF IsNaN(x) \/ IsNaN(y) THEN NaN
  ELSE IF x[2] = 0 /\ y[2] = 0 THEN (IF x[1] = y[1] THEN x ELSE NaN)
  ELSE IF x[2] = 0 THEN x
  ELSE IF y[2] = 0 THEN y
  ELSE Rat(x[1] * y[2] + y[1] * x[2], x[2] * y[2])

\* x <= y on finite rationals
RLeq(x, y) == x[1] * y[2] <= y[1] * x[2]

\* np.max over a non-empty set of finite values
RMaxOf(S) == CHOOSE x \in S : \A y \in S : RLeq(y, x)

\* the symbolic natural logarithm of q
Ln(q) == [ln |-> q]

(***************************************************************************)
(* Python str operations.                                                  *)
(***************************************************************************)
\* the code points str.split() separates at: the characters with
\* str.isspace() true (tab, LF, VT, FF, CR, FS, GS, RS, US, space, NEL, NBSP,
\* U+1680, U+2000..U+200A, U+2028, U+2029, U+202F, U+205F, U+3000)
Whitespace ==
  (9..13) \cup (28..32) \cup {133, 160, 5760} \cup (8192..8202)
    \cup {8232, 8233, 8239, 8287, 12288}

IsSpace(c) == c \in Whitespace

\* str.split(): the maximal runs of non-whitespace characters, in order
RECURSIVE SplitFrom(_, _, _, _)
SplitFrom(line, i, cur, acc) ==
  IF i > Len(line)
  THEN (IF cur = <<>> THEN acc ELSE Append(acc, cur))
  ELSE IF IsSpace(line[i])
       THEN SplitFrom(line, i + 1, <<>>,
                      IF cur = <<>> THEN acc ELSE Append(acc, cur))
       ELSE SplitFrom(line, i + 1, Append(cur, line[i]), acc)

Split(line) == SplitFrom(line, 1, <<>>, <<>>)

\* str.count(word): non-overlapping occurrences of word as a SUBSTRING of line
RECURSIVE CountFrom(_, _, _)
CountFrom(line, word, i) ==
  IF i + Len(word) - 1 > Len(line) THEN 0
  ELSE IF SubSeq(line, i, i + Len(word) - 1) = word
       THEN 1 + CountFrom(line, word, i + Len(word))
       ELSE CountFrom(line, word, i + 1)

Count(line, word) == CountFrom(line, word, 1)

\* list.index(word): the first 0-based position of word, -1 for ValueError
Index(dict, word) ==
  IF \E k \in 1..Len(dict) : dict[k] = word
  THEN (CHOOSE k \in 1..Len(dict) :
          dict[k] = word /\ \A h \in 1..(k - 1) : dict[h] # word) - 1
  ELSE -1

(***************************************************************************)
(* Sparse matrices.                                                        *)
(***************************************************************************)
Positions(shape) == (0..(shape[1] - 1)) \X (0..(shape[2] - 1))

RECURSIVE SumVals(_, _, _)
SumVals(trip, p, k) ==
  IF k > Len(trip) THEN 0
  ELSE (IF <<trip[k][1], trip[k][2]>> = p THEN trip[k][3] ELSE 0)
       + SumVals(trip, p, k + 1)

\* sp.csr_matrix((val, (row, col)), shape): one stored entry per position
\* named by a triplet, duplicates summed
CsrFromCoo(trip, shape) ==
  LET P == {<<trip[k][1], trip[k][2]>> : k \in 1..Len(trip)}
  IN  [shape |-> shape, ent |-> [p \in P |-> SumVals(trip, p, 1)]]

Stored(m) == DOMAIN m.ent

RowPos(m, i) == {p \in Stored(m) : p[1] = i}

ColPos(m, j) == {p \in Stored(m) : p[2] = j}

\* conversion of the stored integers to dtype float
AsFloat(m) == [shape |-> m.shape, ent |-> [p \in Stored(m) |-> FromInt(m.ent[p])]]

\* a raised exception as a call's outcome, in place of the returned matrix
Raised(e) == [exc |-> e]

IsRaised(r) == "exc" \in DOMAIN r

(***************************************************************************)
(* tf: one triplet per (line, distinct vocabulary word), valued            *)
(* line.count(word).  The loop state is the triplet list and the set       *)
(* proceeded_word.                                                         *)
(***************************************************************************)
RECURSIVE TfLine(_, _, _, _, _, _)
TfLine(line, words, k, index, dict, st) ==
  IF k > Len(words) THEN st
  ELSE LET word == words[k]
           dict_index == Index(dict, word)
       IN  IF word \in st.proceeded \/ dict_index = -1
           THEN TfLine(line, words, k + 1, index, dict, st)
           ELSE TfLine(line, words, k + 1, index, dict,
                  [trip |-> Append(st.trip, <<index, dict_index, Count(line, word)>>),
                   proceeded |-> st.proceeded \cup {word}])

RECURSIVE TfLoop(_, _, _, _)
TfLoop(docs, dict, index, st) ==
  IF index >= Len(docs) THEN st.trip
  ELSE LET line == docs[index + 1]
           after == TfLine(line, Split(line), 1, index, dict, st)
       IN  \* proceeded_word.clear()
           TfLoop(docs, dict, index + 1, [trip |-> after.trip, proceeded |-> {}])

tf(docs, dict, mtype) ==
  LET m == CsrFromCoo(TfLoop(docs, dict, 0, [trip |-> <<>>, proceeded |-> {}]),
                      <<Len(docs), Len(dict)>>)
  IN  IF mtype = "float" THEN AsFloat(m) ELSE m

(***************************************************************************)
(* log_tf: every stored count v becomes 1 + ln(v), kept symbolic as        *)
(* [onepluslog |-> v].                                                     *)
(***************************************************************************)
OnePlusLog(v) == [onepluslog |-> v]

\* tf_var.data = 1 + np.log(tf_var.data): stored values only
log_tf(docs, dict) ==
  LET tf_var == tf(docs, dict, "float")
  IN  [shape |-> tf_var.shape,
       ent |-> [p \in Stored(tf_var) |-> OnePlusLog(tf_var.ent[p])]]

(***************************************************************************)
(* augmented_tf                                                            *)
(***************************************************************************)
\* np.max of a slice: ValueError on an empty one
NpMax(S) == IF S = {} THEN Raised("ValueError") ELSE [val |-> RMaxOf(S)]

\* AugRow without the try / except: the ValueError of np.max on an empty row
\* escapes
AugRowUncaught(m, i) ==
  LET mx == NpMax({m.ent[p] : p \in RowPos(m, i)})
  IN  IF IsRaised(mx) THEN mx
      ELSE [shape |-> m.shape,
            ent |-> [p \in Stored(m) |->
                       IF p[1] = i THEN RDiv(m.ent[p], mx.val) ELSE m.ent[p]]]

\* the body of the row loop for row i: data[indptr[i]:indptr[i+1]] /= np.max(...)
\* inside try / except ValueError: pass
AugRow(m, i) ==
  LET mx == NpMax({m.ent[p] : p \in RowPos(m, i)})
  IN  IF IsRaised(mx) THEN m
      ELSE [shape |-> m.shape,
            ent |-> [p \in Stored(m) |->
                       IF p[1] = i THEN RDiv(m.ent[p], mx.val) ELSE m.ent[p]]]

RECURSIVE AugRows(_, _)
AugRows(m, i) ==
  IF IsRaised(m) \/ i >= m.shape[1] THEN m ELSE AugRows(AugRow(m, i), i + 1)

\* (the closing sp.csr_matrix(aug_tf_var, dtype=float) keeps every stored entry,
\* stored zeros and NaN included)
augmented_tf(docs, dict, alpha) ==
  LET t == tf(docs, dict, "float")
      one_minus_alpha == RAdd(FromInt(1), RMul(FromInt(-1), alpha))
      \* aug_tf_var.data *= 1 - alpha
      scaled == [shape |-> t.shape,
                 ent |-> [p \in Stored(t) |-> RMul(t.ent[p], one_minus_alpha)]]
      divided == AugRows(scaled, 0)
  IN  IF IsRaised(divided) THEN divided
      ELSE \* aug_tf_var.data += alpha
           [shape |-> divided.shape,
            ent |-> [p \in Stored(divided) |-> RAdd(divided.ent[p], alpha)]]

(***************************************************************************)
(* boolean_tf: the loop of tf with the value 1.                            *)
(***************************************************************************)
RECURSIVE BoolLine(_, _, _, _, _)
BoolLine(words, k, index, dict, st) ==
  IF k > Len(words) THEN st
  ELSE LET word == words[k]
           dict_index == Index(dict, word)
       IN  IF word \in st.proceeded \/ dict_index = -1
           THEN BoolLine(words, k + 1, index, dict, st)
           ELSE BoolLine(words, k + 1, index, dict,
                  [trip |-> Append(st.trip, <<index, dict_index, 1>>),
                   proceeded |-> st.proceeded \cup {word}])

\* BoolLoop without proceeded_word.clear(): the set of seen words survives
\* from one line to the next
RECURSIVE BoolLoopNoClear(_, _, _, _)
BoolLoopNoClear(docs, dict, index, st) ==
  IF index >= Len(docs) THEN st.trip
  ELSE BoolLoopNoClear(docs, dict, index + 1,
                       BoolLine(Split(docs[index + 1]), 1, index, dict, st))

RECURSIVE BoolLoop(_, _, _, _)
BoolLoop(docs, dict, index, st) ==
  IF index >= Len(docs) THEN st.trip
  ELSE LET after == BoolLine(Split(docs[index + 1]), 1, index, dict, st)
       IN  \* proceeded_word.clear()
           BoolLoop(docs, dict, index + 1, [trip |-> after.trip, proceeded |-> {}])

boolean_tf(docs, dict, mtype) ==
  LET m == CsrFromCoo(BoolLoop(docs, dict, 0, [trip |-> <<>>, proceeded |-> {}]),
                      <<Len(docs), Len(dict)>>)
  IN  IF mtype = "float" THEN AsFloat(m) ELSE m

(***************************************************************************)
(* idf and the fused tf_idf                                                *)
(***************************************************************************)
\* is the stored value x of func's output equal to 0 (np.count_nonzero skips
\* it)?  A stored 1 + ln(v) has v >= 1 and is at least 1; NaN counts as nonzero.
IsZeroVal(func, x) == IF func = "log_tf" THEN FALSE ELSE x = <<0, 1>>

\* ColumnLogs without the 1 + of the adjusted idf: ln(N / count_nonzero)
ColumnLogsUnsmoothed(func, m, N) ==
  [shape |-> m.shape,
   ent |-> [p \in Stored(m) |->
              Ln(RDiv(FromInt(N),
                      FromInt(Cardinality({q \in ColPos(m, p[2]) :
                                             ~IsZeroVal(func, m.ent[q])}))))]]

\* the column loop shared by idf and tf_idf: every stored value of column i is
\* overwritten by ln(N / (1 + count_nonzero(column i)))
ColumnLogs(func, m, N) ==
  [shape |-> m.shape,
   ent |-> [p \in Stored(m) |->
              Ln(RDiv(FromInt(N),
                      FromInt(1 + Cardinality({q \in ColPos(m, p[2]) :
                                                 ~IsZeroVal(func, m.ent[q])}))))]]

idf(docs, dict) ==
  ColumnLogs("boolean_tf", boolean_tf(docs, dict, "float"), Len(docs))

\* x * ln(q) = 0 ?  (NaN * 0 is NaN, which is not 0)
ProductIsZero(func, x, y) ==
  IF func # "log_tf" /\ IsNaN(x) THEN FALSE
  ELSE IsZeroVal(func, x) \/ y = Ln(<<1, 1>>)

\* a.multiply(b) of two sparse matrices: the positions stored in both whose
\* product is not 0; the product x * ln(q) is kept as the pair
Multiply(func, a, b) ==
  [shape |-> a.shape,
   ent |-> [p \in {q \in Stored(a) \cap Stored(b) :
                     ~ProductIsZero(func, a.ent[q], b.ent[q])} |->
              [tf |-> a.ent[p], idf |-> b.ent[p]]]]

\* func(data, dictionary, ...) as tf_idf calls it
TfVar(docs, dict, func, alpha) ==
  CASE func = "augmented_tf" -> augmented_tf(docs, dict, alpha)
    [] func = "tf" -> tf(docs, dict, "float")
    [] func = "log_tf" -> log_tf(docs, dict)
    [] func = "boolean_tf" -> boolean_tf(docs, dict, "float")

tf_idf(docs, dict, func, alpha) ==
  LET tf_var == TfVar(docs, dict, func, alpha)
  IN  IF IsRaised(tf_var) THEN tf_var
      ELSE Multiply(func, tf_var, ColumnLogs(func, tf_var, Len(docs)))

(***************************************************************************)
(* unit_length_scaling and sim.                                            *)
(*                                                                         *)
(* A matrix object the caller holds is [kind, shape, ent] with kind one of *)
(* "csr_float", "csr_int" (scipy.sparse.csr_matrix of that dtype; ent maps *)
(* the stored positions, explicit zeros included) and "ndarray" (ent maps  *)
(* every position).  A value n / sqrt(r) is the pair <<n, r>>: an input    *)
(* value v is <<v, 1>>, and <<0, 0>> is NaN.  Every row holds one r: a row *)
(* of values n_k / sqrt(r) has Euclidean norm sqrt((SUM n_k^2) / r), so    *)
(* dividing the row by its norm gives n_k / sqrt(SUM n_k^2).               *)
(***************************************************************************)
RootNaN == <<0, 0>>

IsRootNaN(x) == x[2] = 0

IsRootZero(x) == x[1] = 0 /\ x[2] # 0

\* numeric equality of two values (NaN equals nothing)
SameVal(x, y) ==
  /\ ~IsRootNaN(x) /\ ~IsRootNaN(y)
  /\ Sgn(x[1]) = Sgn(y[1])
  /\ x[1] * x[1] * y[2] = y[1] * y[1] * x[2]

\* sp.csr_matrix(matrix, dtype=float): an ndarray keeps its nonzero cells, a
\* sparse matrix keeps every stored entry
ToCsrFloat(matrix) ==
  [shape |-> matrix.shape,
   ent |-> [p \in {q \in DOMAIN matrix.ent :
                     matrix.kind = "ndarray" => ~IsRootZero(matrix.ent[q])} |->
              matrix.ent[p]]]

\* does sp.csr_matrix(matrix, dtype=float) hold the caller's own data array?
\* (copy=False: a csr_matrix of dtype float is not copied, astype(float,
\* copy=False) returns the same array)
SharesData(matrix) == matrix.kind = "csr_float"

RECURSIVE SumSq(_, _)
SumSq(m, P) ==
  IF P = {} THEN 0
  ELSE LET p == CHOOSE q \in P : TRUE
       IN  m.ent[p][1] * m.ent[p][1] + SumSq(m, P \ {p})

\* np.linalg.norm(slice, 2) of the stored values at P: NaN when one of them is
\* NaN, otherwise the root of sumsq / r (0.0 for an empty slice)
Norm(m, P) ==
  [nan |-> \E p \in P : IsRootNaN(m.ent[p]), sumsq |-> SumSq(m, P)]

\* DivByNorm with a guard on the zero norm: the value is left as it is
DivByNormGuarded(x, norm) ==
  IF IsRootNaN(x) \/ norm.nan THEN RootNaN
  ELSE IF norm.sumsq = 0 THEN x ELSE <<x[1], norm.sumsq>>

\* x / norm: NaN for a NaN value, a NaN norm and 0 / 0
DivByNorm(x, norm) ==
  IF IsRootNaN(x) \/ norm.nan \/ norm.sumsq = 0 THEN RootNaN
  ELSE <<x[1], norm.sumsq>>

\* the loop body: data[indptr[i]:indptr[i+1]] /= np.linalg.norm(same slice, 2)
UlsRow(m, i) ==
  LET norm == Norm(m, RowPos(m, i))
  IN  [shape |-> m.shape,
       ent |-> [p \in Stored(m) |->
                  IF p[1] = i THEN DivByNorm(m.ent[p], norm) ELSE m.ent[p]]]

RECURSIVE UlsRows(_, _)
UlsRows(m, i) == IF i >= m.shape[1] THEN m ELSE UlsRows(UlsRow(m, i), i + 1)

\* the returned matrix
unit_length_scaling(matrix) == UlsRows(ToCsrFloat(matrix), 0)

\* the caller's matrix object once unit_length_scaling(matrix) has returned: the
\* in-place division went through the shared data array, if it is shared
CallerAfter(matrix) ==
  IF SharesData(matrix)
  THEN [matrix EXCEPT !.ent = unit_length_scaling(matrix).ent]
  ELSE matrix

RECURSIVE SumProd(_, _, _, _, _)
SumProd(a, i, b, j, K) ==
  IF K = {} THEN 0
  ELSE LET k == CHOOSE c \in K : TRUE
       IN  a.ent[<<i, k>>][1] * b.ent[<<j, k>>][1] + SumProd(a, i, b, j, K \ {k})

SharedCols(a, i, b, j) ==
  {p[2] : p \in RowPos(a, i)} \cap {p[2] : p \in RowPos(b, j)}

\* the dot product of row i of a and row j of b
Dot(a, i, b, j) ==
  LET K == SharedCols(a, i, b, j)
  IN  IF K = {} THEN <<0, 1>>
      ELSE IF \E k \in K : IsRootNaN(a.ent[<<i, k>>]) \/ IsRootNaN(b.ent[<<j, k>>])
      THEN RootNaN
      ELSE LET k0 == CHOOSE c \in K : TRUE
           IN  <<SumProd(a, i, b, j, K), a.ent[<<i, k0>>][2] * b.ent[<<j, k0>>][2]>>

\* a @ b.T for two csr matrices: an entry is stored at (i, j) when the rows share
\* a stored column and the sum of the products is not 0
MatMulT(a, b) ==
  [shape |-> <<a.shape[1], b.shape[1]>>,
   ent |-> [p \in {q \in (0..(a.shape[1] - 1)) \X (0..(b.shape[1] - 1)) :
                     /\ SharedCols(a, q[1], b, q[2]) # {}
                     /\ ~IsRootZero(Dot(a, q[1], b, q[2]))} |->
              Dot(a, p[1], b, p[2])]]

\* a score: plus + cos, cos a value n / sqrt(r)
Score(plus, cos) == [plus |-> plus, cos |-> cos]

\* result.data = result.data + 1.0
AddOne(m) == [shape |-> m.shape, ent |-> [p \in Stored(m) |-> Score(1, m.ent[p])]]

\* result.toarray(): the positions that are not stored hold 0.0
ToArray(m) ==
  [p \in Positions(m.shape) |->
     IF p \in Stored(m) THEN m.ent[p] ELSE Score(0, <<0, 1>>)]

\* sim with the product taken the other way round: matrix1 @ matrix2.T
sim_swapped(matrix1, matrix2) ==
  LET m1 == unit_length_scaling(matrix1)
      m2 == unit_length_scaling(matrix2)
      result == AddOne(MatMulT(m1, m2))
  IN  IF result.shape[1] = 1 /\ result.shape[2] = 1
      THEN [kind |-> "scalar", val |-> ToArray(result)[<<0, 0>>]]
      ELSE [kind |-> "ndarray", shape |-> result.shape, val |-> ToArray(result)]

sim(matrix1, matrix2) ==
  LET m1 == unit_length_scaling(matrix1)
      m2 == unit_length_scaling(matrix2)
      result == AddOne(MatMulT(m2, m1))
  IN  IF result.shape[1] = 1 /\ result.shape[2] = 1
      THEN [kind |-> "scalar", val |-> ToArray(result)[<<0, 0>>]]
      ELSE [kind |-> "ndarray", shape |-> result.shape, val |-> ToArray(result)]

(***************************************************************************)
(* The inputs.                                                             *)
(***************************************************************************)
\* the words "a", "ab" and "b"
Tokens == {<<97>>, <<97, 98>>, <<98>>}

VocabWords == {<<97>>, <<97, 98>>, <<98>>}

\* what stands between the tokens of a document: a space after the first
\* token, a tab and a line feed after the second, and so on in turn
Separators == <<(<<32>>), (<<9, 10>>)>>

Alphas == {Rat(-1, 1), Rat(0, 1), Rat(1, 2), Rat(1, 1)}

Funcs == {"tf", "log_tf", "augmented_tf", "boolean_tf"}

SeqsUpTo(S, n) == UNION {[1..k -> S] : k \in 0..n}

\* the document made of the tokens ts, the k-th separator standing first
RECURSIVE Join(_, _)
Join(ts, k) ==
  IF Len(ts) = 0 THEN <<>>
  ELSE IF Len(ts) = 1 THEN ts[1]
  ELSE ts[1] \o Separators[((k - 1) % Len(Separators)) + 1]
             \o Join(Tail(ts), k + 1)

\* the documents of at most t tokens
DocsUpTo(t) == {Join(ts, 1) : ts \in SeqsUpTo(Tokens, t)}

\* the corpora of at most n documents and at most t tokens in all
RECURSIVE CorporaOf(_, _)
CorporaOf(n, t) ==
  IF n = 0 THEN {<<>>}
  ELSE {<<>>} \cup
       UNION {{<<d>> \o c : c \in CorporaOf(n - 1, t - Len(Split(d)))} :
              d \in DocsUpTo(t)}

Corpora == CorporaOf(MaxDocs, MaxTokens)

\* lists of unique words
Vocabularies ==
  {v \in SeqsUpTo(VocabWords, MaxVocab) :
     \A h, k \in 1..Len(v) : h # k => v[h] # v[k]}

Vals == {0, 1, 2}

\* the values a matrix of that kind can hold: an integer matrix holds no NaN
ValuesOf(kind) ==
  {<<v, 1>> : v \in Vals} \cup (IF kind = "csr_int" THEN {} ELSE {RootNaN})

Shapes == {<<1, 2>>, <<2, 2>>}

SparseMatrices(kind) ==
  UNION {UNION {{[kind |-> kind, shape |-> sh, ent |-> e] :
                   e \in [P -> ValuesOf(kind)]} :
                P \in {Q \in SUBSET Positions(sh) : Cardinality(Q) <= MaxNnz}} :
         sh \in Shapes}

DenseMatrices ==
  UNION {{[kind |-> "ndarray", shape |-> sh, ent |-> e] :
            e \in {f \in [Positions(sh) -> ValuesOf("ndarray")] :
                     Cardinality({p \in Positions(sh) : ~IsRootZero(f[p])}) <= MaxNnz}} :
         sh \in Shapes}

Matrices == SparseMatrices("csr_float") \cup SparseMatrices("csr_int") \cup DenseMatrices

Nnz(matrix) ==
  Cardinality({p \in DOMAIN matrix.ent :
                 matrix.kind = "ndarray" => ~IsRootZero(matrix.ent[p])})

NoMatrix == [kind |-> "none", shape |-> <<0, 0>>, ent |-> <<>>]

NoCall == [op |-> "none"]

(***************************************************************************)
(* The builders' state machine: a caller holding a corpus and a vocabulary *)
(* makes one call of a builder; out records the call and what it returned. *)
(* The builders are functions of their arguments alone and change neither  *)
(* of them, so a second call would repeat the first.                       *)
(***************************************************************************)
Init ==
  /\ data \in Corpora
  /\ dictionary \in Vocabularies
  /\ out = NoCall
  /\ M1 = NoMatrix /\ M2 = NoMatrix /\ ret = NoCall

Returns(op, func, alpha, m) ==
  /\ out = NoCall
  /\ out' = [op |-> op, func |-> func, alpha |-> alpha, m |-> m]
  /\ UNCHANGED <<data, dictionary, M1, M2, ret>>

CallTf == Returns("tf", "tf", NaN, tf(data, dictionary, "int"))

CallLogTf == Returns("log_tf", "log_tf", NaN, log_tf(data, dictionary))

CallAugmentedTf ==
  \E alpha \in Alphas :
    Returns("augmented_tf", "augmented_tf", alpha, augmented_tf(data, dictionary, alpha))

CallBooleanTf ==
  Returns("boolean_tf", "boolean_tf", NaN, boolean_tf(data, dictionary, "int"))

CallIdf == Returns("idf", "boolean_tf", NaN, idf(data, dictionary))

\* alpha is read only with func = augmented_tf; otherwise it keeps its default
CallTfIdf ==
  \E func \in Funcs :
    \E alpha \in (IF func = "augmented_tf" THEN Alphas ELSE {Rat(1, 2)}) :
      Returns("tf_idf", func, alpha, tf_idf(data, dictionary, func, alpha))

Next ==
  \/ CallTf
  \/ CallLogTf
  \/ CallAugmentedTf
  \/ CallBooleanTf
  \/ CallIdf
  \/ CallTfIdf

Spec == Init /\ [][Next]_vars

(***************************************************************************)
(* The similarity side: a caller holding two matrix objects calls          *)
(* unit_length_scaling and sim on them; ret records the last call, the     *)
(* arguments as they were when it was made, and what it returned.          *)
(***************************************************************************)
InitSim ==
  /\ M1 \in Matrices
  /\ M2 \in Matrices
  /\ Nnz(M1) + Nnz(M2) <= MaxNnz
  /\ ret = NoCall
  /\ data = <<>> /\ dictionary = <<>> /\ out = NoCall

CallUnitLengthScaling1 ==
  /\ ret' = [op |-> "unit_length_scaling", arg |-> M1, val |-> unit_length_scaling(M1)]
  /\ M1' = CallerAfter(M1)
  /\ UNCHANGED <<M2, data, dictionary, out>>

CallUnitLengthScaling2 ==
  /\ ret' = [op |-> "unit_length_scaling", arg |-> M2, val |-> unit_length_scaling(M2)]
  /\ M2' = CallerAfter(M2)
  /\ UNCHANGED <<M1, data, dictionary, out>>

CallSim ==
  /\ ret' = [op |-> "sim", arg1 |-> M1, arg2 |-> M2, val |-> sim(M1, M2)]
  /\ M1' = CallerAfter(M1)
  /\ M2' = CallerAfter(M2)
  /\ UNCHANGED <<data, dictionary, out>>

NextSim ==
  \/ CallUnitLengthScaling1
  \/ CallUnitLengthScaling2
  \/ CallSim

SpecSim == InitSim /\ [][NextSim]_vars

(***************************************************************************)
(* What the claims speak of.                                               *)
(***************************************************************************)
\* the number of whitespace-separated tokens of line that are equal to word
TokenCount(line, word) ==
  Cardinality({k \in 1..Len(Split(line)) : Split(line)[k] = word})

\* vocabulary word j (0-based) is a token of document i (0-based)
Contains(i, j) == TokenCount(data[i + 1], dictionary[j + 1]) > 0

\* the number of documents that contain vocabulary word j
Df(j) == Cardinality({i \in 0..(Len(data) - 1) : Contains(i, j)})

\* document i holds no vocabulary word
NoVocabWord(i) == \A j \in 0..(Len(dictionary) - 1) : ~Contains(i, j)

\* the stored entries of row i, by column
RowEnt(m, i) == [j \in {p[2] : p \in RowPos(m, i)} |-> m.ent[<<i, j>>]]

\* what the builder named op returns for docs
Builder(op, docs, alpha) ==
  CASE op = "tf" -> tf(docs, dictionary, "int")
    [] op = "boolean_tf" -> boolean_tf(docs, dictionary, "int")
    [] op = "log_tf" -> log_tf(docs, dictionary)
    [] op = "augmented_tf" -> augmented_tf(docs, dictionary, alpha)

\* C1: boolean_tf stores an entry at (i, j) exactly when vocabulary word j is a
\* token of document i, and every stored value is 1 (one entry per pair: a
\* second triplet for the pair would be summed into a 2), also for a word that
\* an earlier document held.
C1_BooleanTfExact ==
  out.op = "boolean_tf" =>
    /\ ~IsRaised(out.m)
    /\ out.m.shape = <<Len(data), Len(dictionary)>>
    /\ Stored(out.m) = {p \in Positions(out.m.shape) : Contains(p[1], p[2])}
    /\ \A p \in Stored(out.m) : out.m.ent[p] = 1

\* a word repeated in the second document that the first document holds too
C1_Witness ==
  /\ out.op = "boolean_tf"
  /\ Len(data) = 2
  /\ \E j \in 0..(Len(dictionary) - 1) :
       /\ Contains(0, j)
       /\ TokenCount(data[2], dictionary[j + 1]) >= 2
       /\ <<1, j>> \in Stored(out.m)

\* C2: the entry of tf at (i, j) is the number of tokens of document i equal to
\* vocabulary word j, and is absent when that number is 0.
C2_TfCountsTokens ==
  out.op = "tf" =>
    \A p \in Positions(out.m.shape) :
      LET c == TokenCount(data[p[1] + 1], dictionary[p[2] + 1])
      IN  IF c = 0 THEN p \notin Stored(out.m)
          ELSE p \in Stored(out.m) /\ out.m.ent[p] = c

\* C3: augmented_tf replaces every stored raw count v by
\* alpha + (1 - alpha) * (v / m), m the largest raw count stored in the row.
C3_AugmentedFollowsFormula ==
  out.op = "augmented_tf" =>
    LET raw == tf(data, dictionary, "float")
        one_minus == RAdd(FromInt(1), RMul(FromInt(-1), out.alpha))
    IN  /\ Stored(out.m) = Stored(raw)
        /\ \A p \in Stored(raw) :
             LET m == RMaxOf({raw.ent[q] : q \in RowPos(raw, p[1])})
             IN  out.m.ent[p] = RAdd(out.alpha, RMul(one_minus, RDiv(raw.ent[p], m)))

\* C4: idf stores exactly the positions boolean_tf stores, every stored entry of
\* column j is ln(N / (1 + df_j)) with df_j the number of documents holding word
\* j, and a term held by fewer documents has no smaller idf.
C4_IdfExact ==
  out.op = "idf" =>
    /\ Stored(out.m) = Stored(boolean_tf(data, dictionary, "int"))
    /\ \A p \in Stored(out.m) :
         out.m.ent[p] = Ln(Rat(Len(data), 1 + Df(p[2])))
    /\ \A p, q \in Stored(out.m) :
         Df(p[2]) <= Df(q[2]) => RLeq(out.m.ent[q].ln, out.m.ent[p].ln)

\* two stored columns with different document frequencies
C4_Witness ==
  /\ out.op = "idf"
  /\ \E p, q \in Stored(out.m) : Df(p[2]) < Df(q[2])

\* C5: tf_idf(data, dictionary, func, alpha) is the elementwise product of
\* func's own output and idf(data, dictionary).
C5_TfIdfIsProduct ==
  out.op = "tf_idf" =>
    out.m = Multiply(out.func, TfVar(data, dictionary, out.func, out.alpha),
                     idf(data, dictionary))

\* C9: in tf, boolean_tf, log_tf and augmented_tf no call raises, the row of a
\* document without any vocabulary word is empty, and every row is what the
\* builder returns for that document alone.
C9_EmptyRowsStayEmpty ==
  out.op \in {"tf", "boolean_tf", "log_tf", "augmented_tf"} =>
    /\ ~IsRaised(out.m)
    /\ \A i \in 0..(Len(data) - 1) :
         /\ NoVocabWord(i) => RowPos(out.m, i) = {}
         /\ RowEnt(out.m, i) = RowEnt(Builder(out.op, <<data[i + 1]>>, out.alpha), 0)

\* augmented_tf on a corpus whose first document holds no vocabulary word and
\* whose second document holds one
C9_Witness ==
  /\ out.op = "augmented_tf"
  /\ Len(data) = 2
  /\ NoVocabWord(0)
  /\ ~NoVocabWord(1)
  /\ ~IsRaised(out.m)
  /\ RowPos(out.m, 0) = {}
  /\ RowPos(out.m, 1) # {}

\* row i of a caller's matrix, as a one-row matrix of the same kind
RowMatrix(matrix, i) ==
  [kind |-> matrix.kind,
   shape |-> <<1, matrix.shape[2]>>,
   ent |-> [p \in {<<0, q[2]>> : q \in {r \in DOMAIN matrix.ent : r[1] = i}} |->
              matrix.ent[<<i, p[2]>>]]]

\* every cell of row i is 0: no stored entry, or stored zeros only
AllZeroRow(matrix, i) ==
  \A p \in DOMAIN matrix.ent : p[1] = i => IsRootZero(matrix.ent[p])

\* two stored values are the same number (or both NaN)
SameStored(x, y) == (IsRootNaN(x) /\ IsRootNaN(y)) \/ SameVal(x, y)

SameMatrix(a, b) ==
  /\ a.kind = b.kind
  /\ a.shape = b.shape
  /\ DOMAIN a.ent = DOMAIN b.ent
  /\ \A p \in DOMAIN a.ent : SameStored(a.ent[p], b.ent[p])

\* the cells of what sim returned, by position
SimCells(r) == IF r.kind = "scalar" THEN (<<0, 0>> :> r.val) ELSE r.val

\* C6: the score sim returns at (i, j) is 1 + (dot product of unit-scaled row i
\* of the second input and unit-scaled row j of the first), whatever the value
\* of that dot product.
C6_SimAddsOneEverywhere ==
  ret.op = "sim" =>
    LET m1 == unit_length_scaling(ret.arg1)
        m2 == unit_length_scaling(ret.arg2)
        cells == SimCells(ret.val)
    IN  \A p \in DOMAIN cells :
          /\ cells[p].plus = 1
          /\ SameStored(cells[p].cos, Dot(m2, p[1], m1, p[2]))

\* C7: no call of unit_length_scaling or sim changes a matrix object of the
\* caller: stored positions and stored values are after the call what they
\* were before it.
C7_CallerMatricesUnchanged ==
  [][SameMatrix(M1, M1') /\ SameMatrix(M2, M2')]_vars

\* C8: every all-zero row of the input of unit_length_scaling, however it is
\* given, holds non-finite values in the result.
C8_ZeroRowsBecomeNonFinite ==
  ret.op = "unit_length_scaling" =>
    \A i \in 0..(ret.arg.shape[1] - 1) :
      AllZeroRow(ret.arg, i) =>
        /\ RowPos(ret.val, i) # {}
        /\ \A p \in RowPos(ret.val, i) : IsRootNaN(ret.val.ent[p])

\* C8 as amended: an all-zero row of a sparse input that has stored entries (all
\* of them 0) holds NaN at each of its stored positions in the result; an
\* all-zero row without stored entries, and every all-zero row of an ndarray,
\* has no stored entry in the result.
C8_ZeroRowsAmended ==
  ret.op = "unit_length_scaling" =>
    \A i \in 0..(ret.arg.shape[1] - 1) :
      AllZeroRow(ret.arg, i) =>
        IF ret.arg.kind # "ndarray" /\ RowPos(ret.arg, i) # {}
        THEN /\ RowPos(ret.val, i) = RowPos(ret.arg, i)
             /\ \A p \in RowPos(ret.val, i) : IsRootNaN(ret.val.ent[p])
        ELSE RowPos(ret.val, i) = {}

\* a sparse input with a row of stored zeros (NaN in the result) and a row
\* without stored entries (empty in the result)
C8_Witness ==
  /\ ret.op = "unit_length_scaling"
  /\ ret.arg.kind = "csr_float"
  /\ ret.arg.shape[1] = 2
  /\ RowPos(ret.arg, 0) # {} /\ AllZeroRow(ret.arg, 0)
  /\ RowPos(ret.arg, 1) = {}
  /\ \A p \in RowPos(ret.val, 0) : IsRootNaN(ret.val.ent[p])
  /\ RowPos(ret.val, 0) # {}
  /\ RowPos(ret.val, 1) = {}

\* C10: for a first input of m rows and a second input of n rows, sim returns n
\* by m scores, the one at (i, j) being what sim returns for row j of the first
\* input and row i of the second; with n = m = 1 it returns the bare score.
C10_SimOrientation ==
  ret.op = "sim" =>
    LET m == ret.arg1.shape[1]
        n == ret.arg2.shape[1]
    IN  /\ ret.val.kind = (IF n = 1 /\ m = 1 THEN "scalar" ELSE "ndarray")
        /\ ret.val.kind = "ndarray" =>
             /\ ret.val.shape = <<n, m>>
             /\ DOMAIN ret.val.val = Positions(<<n, m>>)
        /\ \A i \in 0..(n - 1) : \A j \in 0..(m - 1) :
             SimCells(ret.val)[<<i, j>>]
               = sim(RowMatrix(ret.arg1, j), RowMatrix(ret.arg2, i)).val

\* a first input of two rows and a second input of one row whose two scores
\* differ
C10_Witness ==
  /\ ret.op = "sim"
  /\ ret.arg1.shape[1] = 2
  /\ ret.arg2.shape[1] = 1
  /\ ret.val.kind = "ndarray"
  /\ ret.val.shape = <<1, 2>>
  /\ ret.val.val[<<0, 0>>] # ret.val.val[<<0, 1>>]

====
